---- MODULE Spec2Model ----
(***************************************************************************)
(* Event-sourced Agent / AgentSession aggregates, the DynamoDB event       *)
(* store, the in-memory repositories and the two question handlers         *)
(* (SubmitQuestionHandler, SubmitQuestionWithMemoryHandler).                *)
(*                                                                         *)
(* A "process" is one Python process (one Lambda container): it owns one   *)
(* InMemoryAgentRepository and one InMemorySessionRepository, whose        *)
(* dictionaries hold references to the aggregate objects.  All processes   *)
(* share the DynamoDB table.  A request is one call of handle(); its steps *)
(* are the code between two awaits.                                        *)
(***************************************************************************)
EXTENDS Integers, Sequences, FiniteSets, TLC

\* ---------------------------------------------------------------- bounds
MaxRequests == 2
\* direct calls of aggregate methods stop at this version / message count
MaxVersion == 3
\* how often a caller runs a command again after ConcurrencyError
MaxRetries == 2

Requests == 1..MaxRequests
Procs == {"p1", "p2"}
AgentIds == {1}
\* a request holds at most one session and saves at most one, so this many
\* session ids are enough for uuid4 never to run out
SessionIds == 1..MaxRequests
NoSession == 0
Kinds == {"basic", "memory"}
TokenCounts == {3}
Configs == {"cfg0", "cfg1"}

\* ------------------------------------------------------------ state
VARIABLES
    store,       \* the DynamoDB table: item key -> stored event
    agentRepo,   \* per process: keys of InMemoryAgentRepository._agents
    agentObj,    \* per process: the Agent objects those keys refer to
    sessRepo,    \* per process: keys of InMemorySessionRepository._sessions
    sessObj,     \* the AgentSession objects alive (by id)
    pc,          \* per request: where handle() stands
    cmd,         \* per request: the command and the process that runs it
    sess,        \* per request: the session object handle() holds
    queue,       \* per request: events of the running "for event in ..." loop
    found,       \* per request: sources whose retrieval returned items
    context,     \* per request: sections of the composed context (<<>> = None)
    tokensUsed,  \* per request: tokens_used returned by the language model
    degraded,    \* per request: sources whose retrieval failed and was swallowed
    err,         \* per request: the exception handle() raised
    trace,       \* per request: the steps of the current attempt, in order
    appendLog,   \* every append call made: key, writer, outcome
    memEvents,   \* interactions stored by the memory platform (create_event)
    memLog,      \* the last two namespace-building calls, oldest first
    deps,        \* what the memory services were constructed with
    tenant_configs, \* TenantMemoryService._tenant_configs
    services,    \* the per-tenant service dictionaries: (tenant, kind) -> its config
    sessionCache,   \* per SessionMemoryService: _cache (cache key -> SessionContext)
    sessionStore,   \* the memory platform: session namespace -> stored turns
    episodeStore,   \* the memory platform: episodes, by namespace
    lastCall,    \* the last call on TenantMemoryService / SessionMemoryService
    composed,    \* the last context composition: its inputs and its output
    stream,      \* one call of StrandsAgentWrapper.stream and its consumer
    risk         \* the last risk assessment: its inputs and its result

\* the state of the memory services (AgentCore Memory wrappers)
tmsVars == <<deps, tenant_configs, services, sessionCache, sessionStore, episodeStore,
             lastCall>>
memVars == <<memLog, tmsVars, composed, stream, risk>>

vars == <<store, agentRepo, agentObj, sessRepo, sessObj, pc, cmd, sess, queue,
          found, context, tokensUsed, degraded, err, trace, appendLog, memEvents, memVars>>

\* ------------------------------------------------------------ events
\* DomainEvent and its four kinds; origin stands for the uuid4 event_id
\* (the request that emitted it, 0 for a direct caller of the aggregate).
MkEvent(etype, atype, aid, v, sid, origin, hasctx, tokens, reason, mc, tt) ==
    [event_type |-> etype, aggregate_type |-> atype, aggregate_id |-> aid,
     version |-> v, session_id |-> sid, origin |-> origin,
     has_context |-> hasctx, tokens_used |-> tokens, reason |-> reason,
     message_count |-> mc, total_tokens |-> tt]

AgentInvoked(aid, v, sid, hasctx, origin) ==
    MkEvent("AgentInvoked", "Agent", aid, v, sid, origin, hasctx, 0, "", 0, 0)

ResponseGenerated(aid, v, sid, tokens, origin) ==
    MkEvent("ResponseGenerated", "Agent", aid, v, sid, origin, FALSE, tokens, "", 0, 0)

SessionStarted(sid, v, origin) ==
    MkEvent("SessionStarted", "AgentSession", sid, v, sid, origin, FALSE, 0, "", 0, 0)

SessionEnded(sid, v, reason, mc, tt) ==
    MkEvent("SessionEnded", "AgentSession", sid, v, sid, 0, FALSE, 0, reason, mc, tt)

\* ------------------------------------------------------------ aggregates
\* AggregateRoot.increment_version
increment_twice(v) == v + 2

increment_none(v) == v

increment_version(v) == v + 1

\* Entity.add_domain_event
add_domain_event(events, e) == Append(events, e)

\* Entity.clear_domain_events: the copy it returns, and the emptied buffer
clear_keeps_buffer(obj) == [returned |-> obj.events, obj |-> obj]

clear_domain_events(obj) == [returned |-> obj.events, obj |-> [obj EXCEPT !.events = <<>>]]

\* "self.add_domain_event(E(version=self.version + 1, ...)); self.increment_version()"
\* log is history only: every event the object ever emitted, in order
Emit(obj, e) ==
    [obj EXCEPT !.events = add_domain_event(@, e),
                !.version = increment_version(@),
                !.log = Append(@, e)]

\* a freshly constructed Agent (Agent.create defaults: version 0, active)
NewAgent ==
    [is_active |-> TRUE, version |-> 0, config |-> "cfg0", events |-> <<>>, log |-> <<>>]

\* Agent.invoke: one AgentInvoked at version + 1
AgentInvoke(a, aid, sid, hasctx, origin) ==
    Emit(a, AgentInvoked(aid, a.version + 1, sid, hasctx, origin))

\* Agent.record_response: one ResponseGenerated at version + 1
AgentRecordResponse(a, aid, sid, tokens, origin) ==
    Emit(a, ResponseGenerated(aid, a.version + 1, sid, tokens, origin))

\* Agent.update_config / deactivate / activate: they set fields, nothing else
AgentUpdateConfig(a, c) == [a EXCEPT !.config = c]

AgentDeactivate(a) == [a EXCEPT !.is_active = FALSE]

AgentActivate(a) == [a EXCEPT !.is_active = TRUE]

\* AgentSession(...) as built by AgentSession.create before start();
\* last is history only: the latest direct call made on the object
NewSession(aid) ==
    [agent_id |-> aid, status |-> "active", message_count |-> 0, total_tokens |-> 0,
     ended |-> FALSE, version |-> 0, events |-> <<>>, log |-> <<>>, last |-> "create"]

\* AgentSession.start
SessionStartReactivates(s, sid, origin) ==
    Emit([s EXCEPT !.status = "active"], SessionStarted(sid, s.version + 1, origin))

SessionStart(s, sid, origin) == Emit(s, SessionStarted(sid, s.version + 1, origin))

\* AgentSession.create: construct, then start()
SessionCreate(aid, sid, origin) == SessionStart(NewSession(aid), sid, origin)

\* AgentSession.end: raises ValueError (nothing changes) unless active
SessionEnd(s, sid, reason) ==
    IF s.status # "active" THEN s
    ELSE Emit([s EXCEPT !.status = "ended", !.ended = TRUE],
              SessionEnded(sid, s.version + 1, reason, s.message_count, s.total_tokens))

\* AgentSession.expire: returns at once unless active
SessionExpireUnguarded(s, sid) ==
    Emit([s EXCEPT !.status = "expired", !.ended = TRUE],
         SessionEnded(sid, s.version + 1, "expired", s.message_count, s.total_tokens))

SessionExpire(s, sid) ==
    IF s.status # "active" THEN s
    ELSE Emit([s EXCEPT !.status = "expired", !.ended = TRUE],
              SessionEnded(sid, s.version + 1, "expired", s.message_count, s.total_tokens))

\* AgentSession.record_interaction
SessionRecordInteraction(s, tokens) ==
    [s EXCEPT !.message_count = @ + 1, !.total_tokens = @ + tokens]

\* ------------------------------------------------------------ event store
\* width of the zero-padded version in the sort key (f"v{version:010d}")
SkWidth == 10

RECURSIVE Digits(_)
\* decimal digits of n, most significant first (what ":d" prints)
Digits(n) == IF n < 10 THEN <<n>> ELSE Append(Digits(n \div 10), n % 10)

\* f"{n:010d}": left-padded with zeros to at least SkWidth digits
ZeroPad(n) ==
    LET d == Digits(n)
    IN  IF Len(d) >= SkWidth THEN d ELSE [i \in 1..(SkWidth - Len(d)) |-> 0] \o d

\* the sort key "v0000000001" without its constant first letter
Sk(version) == ZeroPad(version)

\* DynamoDB compares string keys lexicographically
LexLeq(x, y) ==
    LET n == IF Len(x) < Len(y) THEN Len(x) ELSE Len(y)
        diff == {i \in 1..n : x[i] # y[i]}
    IN  IF diff = {} THEN Len(x) <= Len(y)
        ELSE LET i == CHOOSE j \in diff : \A k \in diff : j <= k IN x[i] < y[i]

\* item key: pk = f"{aggregate_type}#{aggregate_id}", sk = Sk(version)
StoreKey(e) == <<e.aggregate_type, e.aggregate_id, Sk(e.version)>>

\* ConditionExpression "attribute_not_exists(pk) AND attribute_not_exists(sk)",
\* evaluated by DynamoDB against the item that has the key being written
ConditionOverwrite(st, key) == TRUE

ConditionHolds(st, key) == key \notin DOMAIN st

\* put_item: write the item under its key
PutItem(st, key, e) == (key :> e) @@ st

\* keys of one partition at or after a sort key
PartitionKeys(st, atype, aid, skStart) ==
    {k \in DOMAIN st : k[1] = atype /\ k[2] = aid /\ LexLeq(skStart, k[3])}

RECURSIVE Ascending(_, _)
\* the items of a key set in ascending sort-key order (ScanIndexForward=True)
Ascending(st, keys) ==
    IF keys = {} THEN <<>>
    ELSE LET k == CHOOSE x \in keys : \A y \in keys : LexLeq(x[3], y[3])
         IN  <<st[k]>> \o Ascending(st, keys \ {k})

\* DynamoDBEventStore.get_events
get_events(st, atype, aid, fromVersion) ==
    Ascending(st, PartitionKeys(st, atype, aid, Sk(fromVersion)))

\* DynamoDBEventStore.get_all_events
get_all_events(st, atype, aid) == get_events(st, atype, aid, 0)

\* DynamoDBEventStore.get_latest_version: last item of the partition, or 0
get_latest_version(st, atype, aid) ==
    LET keys == {k \in DOMAIN st : k[1] = atype /\ k[2] = aid}
    IN  IF keys = {} THEN 0
        ELSE LET k == CHOOSE x \in keys : \A y \in keys : LexLeq(y[3], x[3])
             IN  st[k].version

\* ------------------------------------------------------------ collaborators
\* what the backing service does with one call: it returns items, returns
\* nothing, raises, or never answers
RawOutcomes == {"items", "empty", "error", "never"}

\* what LLMService.generate and create_event can do
CallOutcomes == {"ok", "error"}

\* EpisodicMemoryService.retrieve_similar_episodes over
\* AgentCoreMemoryClient.retrieve_memories, which catches every exception and
\* returns []: the result, and whether a failure was swallowed
RetrieveEpisodes(raw) ==
    [items |-> raw = "items", swallowed |-> raw = "error", raised |-> FALSE]

\* ReflectionService.retrieve_relevant_reflections: best effort, empty on error
RetrieveReflections(raw) ==
    [items |-> raw = "items", swallowed |-> raw = "error", raised |-> FALSE]

\* S3VectorClient.search: logs the exception and re-raises it
VectorSearch(raw) ==
    [items |-> raw = "items", swallowed |-> FALSE, raised |-> raw = "error"]

\* SubmitQuestionHandler._build_context: None without search results
BuildContext(f) == IF "search" \in f THEN <<"knowledge">> ELSE <<>>

\* SubmitQuestionWithMemoryHandler._build_enriched_context: the non-empty
\* sections, reflections first, then episodes, then search results
BuildEnrichedContext(f) ==
    (IF "reflection" \in f THEN <<"reflection">> ELSE <<>>)
    \o (IF "episodic" \in f THEN <<"episodic">> ELSE <<>>)
    \o (IF "search" \in f THEN <<"knowledge">> ELSE <<>>)

\* ------------------------------------------------------------ initial state
NoCmd ==
    [proc |-> "p1", kind |-> "basic", agent_id |-> 0, session_id |-> NoSession, retries |-> 0]

Init ==
    /\ store = [k \in {} |-> 0]
    /\ agentRepo = [p \in Procs |-> {}]
    /\ agentObj = [p \in Procs |-> [a \in AgentIds |-> NewAgent]]
    /\ sessRepo = [p \in Procs |-> {}]
    /\ sessObj = [k \in {} |-> 0]
    /\ pc = [r \in Requests |-> "idle"]
    /\ cmd = [r \in Requests |-> NoCmd]
    /\ sess = [r \in Requests |-> NoSession]
    /\ queue = [r \in Requests |-> <<>>]
    /\ found = [r \in Requests |-> {}]
    /\ context = [r \in Requests |-> <<>>]
    /\ tokensUsed = [r \in Requests |-> 0]
    /\ degraded = [r \in Requests |-> {}]
    /\ err = [r \in Requests |-> ""]
    /\ trace = [r \in Requests |-> <<>>]
    /\ appendLog = {}
    /\ memEvents = {}
    /\ memLog = <<>>
    /\ deps = [kind |-> "none", config |-> 0]
    /\ tenant_configs = [t \in {} |-> 0]
    /\ services = [k \in {} |-> 0]
    /\ sessionCache = [o \in {} |-> 0]
    /\ sessionStore = [n \in {} |-> 0]
    /\ episodeStore = {}
    /\ lastCall = [op |-> "none"]
    /\ composed = [composer |-> "none"]
    /\ stream = [pc |-> "idle"]
    /\ risk = [level |-> "none"]

\* ------------------------------------------------------------ helpers
SavedSessions == UNION {sessRepo[p] : p \in Procs}

\* uuid4: an id no live session has (the id of a discarded session was never
\* stored anywhere, so it is as good as new)
FreshSessionId ==
    CHOOSE i \in SessionIds :
        i \notin DOMAIN sessObj /\ \A j \in SessionIds : j < i => j \in DOMAIN sessObj

\* the session object a request created and never saved dies with the request
Discard(r) ==
    IF sess[r] # NoSession /\ sess[r] \notin SavedSessions
    THEN [i \in DOMAIN sessObj \ {sess[r]} |-> sessObj[i]]
    ELSE sessObj

\* handle() raises e: its locals are gone
Raise(r, e) ==
    /\ pc' = [pc EXCEPT ![r] = "failed"]
    /\ err' = [err EXCEPT ![r] = e]
    /\ sessObj' = Discard(r)
    /\ sess' = [sess EXCEPT ![r] = NoSession]
    /\ queue' = [queue EXCEPT ![r] = <<>>]
    /\ found' = [found EXCEPT ![r] = {}]
    /\ context' = [context EXCEPT ![r] = <<>>]
    /\ tokensUsed' = [tokensUsed EXCEPT ![r] = 0]

\* the steps handle() has taken in this attempt
Step(r, steps) == trace' = [trace EXCEPT ![r] = @ \o steps]

\* ------------------------------------------------------------ the handlers
\* a caller submits a command (with no session id, or one this process saved)
\* to the handler of one process
Start(r) ==
    /\ pc[r] = "idle"
    /\ \E p \in Procs, k \in Kinds, a \in AgentIds :
         \E sid \in sessRepo[p] \cup {NoSession} :
            cmd' = [cmd EXCEPT ![r] = [proc |-> p, kind |-> k, agent_id |-> a,
                                       session_id |-> sid, retries |-> 0]]
    /\ pc' = [pc EXCEPT ![r] = "load_agent"]
    /\ UNCHANGED <<store, agentRepo, agentObj, sessRepo, sessObj, sess, queue, found,
                   context, tokensUsed, degraded, err, trace, appendLog, memEvents, memVars>>

\* "1. Load agent": agent is None, or not agent.is_active -> ValueError
AgentCheckNoActive(p, a) ==
    IF a \notin agentRepo[p] THEN "Agent not found" ELSE "ok"

AgentCheck(p, a) ==
    IF a \notin agentRepo[p] THEN "Agent not found"
    ELSE IF ~agentObj[p][a].is_active THEN "Agent is not active"
    ELSE "ok"

LoadAgent(r) ==
    /\ pc[r] = "load_agent"
    /\ LET res == AgentCheck(cmd[r].proc, cmd[r].agent_id)
       IN  IF res # "ok"
           THEN /\ Raise(r, res)
                /\ UNCHANGED trace
           ELSE /\ pc' = [pc EXCEPT ![r] = "load_session"]
                /\ Step(r, <<"load_agent">>)
                /\ UNCHANGED <<err, sessObj, sess, queue, found, context, tokensUsed>>
    /\ UNCHANGED <<store, agentRepo, agentObj, sessRepo, cmd, degraded, appendLog,
                   memEvents, memVars>>

\* "2. Load or create session"
LoadSession(r) ==
    /\ pc[r] = "load_session"
    /\ IF cmd[r].session_id \in sessRepo[cmd[r].proc]
       THEN /\ sess' = [sess EXCEPT ![r] = cmd[r].session_id]
            /\ UNCHANGED sessObj
       ELSE LET sid == FreshSessionId
            IN  /\ sess' = [sess EXCEPT ![r] = sid]
                /\ sessObj' = (sid :> SessionCreate(cmd[r].agent_id, sid, r)) @@ sessObj
    /\ pc' = [pc EXCEPT ![r] = IF cmd[r].kind = "memory" THEN "episodic" ELSE "search"]
    /\ Step(r, <<"load_session">>)
    /\ UNCHANGED <<store, agentRepo, agentObj, sessRepo, cmd, queue, found, context,
                   tokensUsed, degraded, err, appendLog, memEvents, memVars>>

\* one awaited retrieval of the memory handler ("3. Retrieve episodic memory
\* context", "4. Retrieve reflections"); a call that never returns leaves
\* handle() suspended in it
Retrieve(r, at, src, raw, res, next) ==
    /\ pc[r] = at
    /\ Step(r, <<src>>)
    /\ IF raw = "never"
       THEN /\ pc' = [pc EXCEPT ![r] = "blocked"]
            /\ UNCHANGED <<found, degraded>>
       ELSE /\ pc' = [pc EXCEPT ![r] = next]
            /\ found' = [found EXCEPT ![r] = IF res.items THEN @ \cup {src} ELSE @]
            /\ degraded' = [degraded EXCEPT ![r] = IF res.swallowed THEN @ \cup {src} ELSE @]
    /\ UNCHANGED <<store, agentRepo, agentObj, sessRepo, sessObj, cmd, sess, queue,
                   context, tokensUsed, err, appendLog, memEvents, memVars>>

Episodic(r, raw) ==
    Retrieve(r, "episodic", "episodic", raw, RetrieveEpisodes(raw), "reflection")

Reflection(r, raw) ==
    Retrieve(r, "reflection", "reflection", raw, RetrieveReflections(raw), "search")

\* the knowledge search, then (no await in between) the context is built and
\* agent.invoke records the invocation; the language model is called next
Search(r, raw) ==
    /\ pc[r] = "search"
    /\ LET res == VectorSearch(raw)
           p == cmd[r].proc
           a == cmd[r].agent_id
           f == IF res.items THEN found[r] \cup {"search"} ELSE found[r]
           ctx == IF cmd[r].kind = "memory" THEN BuildEnrichedContext(f) ELSE BuildContext(f)
       IN  IF raw = "never"
           THEN /\ pc' = [pc EXCEPT ![r] = "blocked"]
                /\ Step(r, <<"search">>)
                /\ UNCHANGED <<agentObj, sessObj, sess, queue, found, context, tokensUsed,
                               err>>
           ELSE IF res.raised
           THEN /\ Raise(r, "search_error")
                /\ Step(r, <<"search">>)
                /\ UNCHANGED agentObj
           ELSE /\ found' = [found EXCEPT ![r] = f]
                /\ context' = [context EXCEPT ![r] = ctx]
                /\ agentObj' = [agentObj EXCEPT ![p][a] =
                                   AgentInvoke(@, a, sess[r], ctx # <<>>, r)]
                /\ pc' = [pc EXCEPT ![r] = "llm"]
                /\ Step(r, <<"search", "compose", "invoke">>)
                /\ UNCHANGED <<sessObj, sess, queue, tokensUsed, err>>
    /\ UNCHANGED <<store, agentRepo, sessRepo, cmd, degraded, appendLog, memEvents, memVars>>

\* "Record response" and the start of "Persist events": record_response,
\* record_interaction, then agent.clear_domain_events() hands its buffer to the
\* first for loop and leaves the buffer empty
RecordAndDrain(r, tok) ==
    LET p == cmd[r].proc
        a == cmd[r].agent_id
        cleared == clear_domain_events(AgentRecordResponse(agentObj[p][a], a, sess[r], tok, r))
    IN  /\ agentObj' = [agentObj EXCEPT ![p][a] = cleared.obj]
        /\ sessObj' = [sessObj EXCEPT ![sess[r]] = SessionRecordInteraction(@, tok)]
        /\ queue' = [queue EXCEPT ![r] = cleared.returned]
        /\ pc' = [pc EXCEPT ![r] = "append_agent"]

\* the language model answers or fails (its exception is not caught)
LLM(r, out) ==
    /\ pc[r] = "llm"
    /\ \E tok \in TokenCounts :
        IF out = "error"
        THEN /\ Raise(r, "llm_error")
             /\ Step(r, <<"llm">>)
             /\ UNCHANGED agentObj
        ELSE /\ tokensUsed' = [tokensUsed EXCEPT ![r] = tok]
             /\ UNCHANGED <<err, sess, found, context>>
             /\ IF cmd[r].kind = "memory"
                THEN /\ pc' = [pc EXCEPT ![r] = "save_interaction"]
                     /\ Step(r, <<"llm">>)
                     /\ UNCHANGED <<agentObj, sessObj, queue>>
                ELSE /\ RecordAndDrain(r, tok)
                     /\ Step(r, <<"llm", "record_response">>)
    /\ UNCHANGED <<store, agentRepo, sessRepo, cmd, degraded, appendLog, memEvents, memVars>>

\* "11. Save interaction for future episode detection": create_event stores
\* the turn or raises (EpisodicMemoryService.save_interaction does not catch)
SaveInteractionAfterRecord(r, out) ==
    /\ pc[r] = "save_interaction"
    /\ IF out = "error"
       THEN /\ Raise(r, "memory_error")
            /\ Step(r, <<"record_response", "save_interaction">>)
            /\ UNCHANGED <<agentObj, memEvents>>
       ELSE /\ memEvents' = memEvents \cup {[session_id |-> cmd[r].session_id, origin |-> r]}
            /\ RecordAndDrain(r, tokensUsed[r])
            /\ Step(r, <<"record_response", "save_interaction">>)
            /\ UNCHANGED <<err, sess, found, context, tokensUsed>>
    /\ UNCHANGED <<store, agentRepo, sessRepo, cmd, degraded, appendLog, memVars>>

SaveInteraction(r, out) ==
    /\ pc[r] = "save_interaction"
    /\ IF out = "error"
       THEN /\ Raise(r, "memory_error")
            /\ Step(r, <<"save_interaction">>)
            /\ UNCHANGED <<agentObj, memEvents>>
       ELSE /\ memEvents' = memEvents \cup {[session_id |-> cmd[r].session_id, origin |-> r]}
            /\ RecordAndDrain(r, tokensUsed[r])
            /\ Step(r, <<"save_interaction", "record_response">>)
            /\ UNCHANGED <<err, sess, found, context, tokensUsed>>
    /\ UNCHANGED <<store, agentRepo, sessRepo, cmd, degraded, appendLog, memVars>>

\* DynamoDBEventStore.append: what the caller sees. The conditional put_item
\* stores the item, or ConditionalCheckFailedException becomes ConcurrencyError
AppendSwallowed(st, key) == "ok"

AppendResult(st, key) == IF ConditionHolds(st, key) THEN "ok" ELSE "ConcurrencyError"

\* DynamoDBEventStore.append: the table after the call
AppendEffect(st, e) ==
    IF ConditionHolds(st, StoreKey(e)) THEN PutItem(st, StoreKey(e), e) ELSE st

\* one "await self._event_store.append(event)" of the two for loops; when the
\* agent's loop ends, session.clear_domain_events() feeds the second loop
AppendStep(r) ==
    /\ pc[r] \in {"append_agent", "append_session"}
    /\ LET e == Head(queue[r])
           key == StoreKey(e)
           res == AppendResult(store, key)
           rest == Tail(queue[r])
           cleared == clear_domain_events(sessObj[sess[r]])
       IN  /\ store' = AppendEffect(store, e)
           /\ appendLog' = appendLog \cup
                  {[writer |-> r, key |-> key, origin |-> e.origin, result |-> res]}
           /\ Step(r, <<"append">>)
           /\ IF res # "ok"
              THEN Raise(r, res)
              ELSE /\ UNCHANGED <<err, sess, found, context, tokensUsed>>
                   /\ IF rest # <<>>
                      THEN /\ queue' = [queue EXCEPT ![r] = rest]
                           /\ UNCHANGED <<pc, sessObj>>
                      ELSE IF pc[r] = "append_agent"
                      THEN /\ queue' = [queue EXCEPT ![r] = cleared.returned]
                           /\ sessObj' = [sessObj EXCEPT ![sess[r]] = cleared.obj]
                           /\ pc' = [pc EXCEPT ![r] = IF cleared.returned # <<>>
                                                      THEN "append_session"
                                                      ELSE "save_agent"]
                      ELSE /\ queue' = [queue EXCEPT ![r] = <<>>]
                           /\ pc' = [pc EXCEPT ![r] = "save_agent"]
                           /\ UNCHANGED sessObj
    /\ UNCHANGED <<agentRepo, agentObj, sessRepo, cmd, degraded, memEvents, memVars>>

\* "Save aggregates": InMemoryAgentRepository.save
SaveAgent(r) ==
    /\ pc[r] = "save_agent"
    /\ agentRepo' = [agentRepo EXCEPT ![cmd[r].proc] = @ \cup {cmd[r].agent_id}]
    /\ pc' = [pc EXCEPT ![r] = "save_session"]
    /\ Step(r, <<"save_agent">>)
    /\ UNCHANGED <<store, agentObj, sessRepo, sessObj, cmd, sess, queue, found, context,
                   tokensUsed, degraded, err, appendLog, memEvents, memVars>>

\* InMemorySessionRepository.save, then handle() returns its result
SaveSession(r) ==
    /\ pc[r] = "save_session"
    /\ sessRepo' = [sessRepo EXCEPT ![cmd[r].proc] = @ \cup {sess[r]}]
    /\ pc' = [pc EXCEPT ![r] = "done"]
    /\ Step(r, <<"save_session">>)
    /\ UNCHANGED <<store, agentRepo, agentObj, sessObj, cmd, sess, queue, found, context,
                   tokensUsed, degraded, err, appendLog, memEvents, memVars>>

\* the caller's answer to ConcurrencyError: run the same command again
Retry(r) ==
    /\ pc[r] = "failed"
    /\ err[r] = "ConcurrencyError"
    /\ cmd[r].retries < MaxRetries
    /\ cmd' = [cmd EXCEPT ![r].retries = @ + 1]
    /\ pc' = [pc EXCEPT ![r] = "load_agent"]
    /\ err' = [err EXCEPT ![r] = ""]
    /\ trace' = [trace EXCEPT ![r] = <<>>]
    /\ degraded' = [degraded EXCEPT ![r] = {}]
    /\ UNCHANGED <<store, agentRepo, agentObj, sessRepo, sessObj, sess, queue, found,
                   context, tokensUsed, appendLog, memEvents, memVars>>

\* handle() of either handler, with the collaborators answering within
\* memOut (memory tiers), searchOut (knowledge search) and callOut
Handle(r, memOut, searchOut, callOut) ==
    \/ LoadAgent(r)
    \/ LoadSession(r)
    \/ \E raw \in memOut : Episodic(r, raw)
    \/ \E raw \in memOut : Reflection(r, raw)
    \/ \E raw \in searchOut : Search(r, raw)
    \/ \E out \in callOut : LLM(r, out)
    \/ \E out \in callOut : SaveInteraction(r, out)
    \/ AppendStep(r)
    \/ SaveAgent(r)
    \/ SaveSession(r)

\* ------------------------------------------------------------ other callers
\* a process puts a newly built Agent into its repository
RegisterAgent(p, a) ==
    /\ a \notin agentRepo[p]
    /\ agentRepo' = [agentRepo EXCEPT ![p] = @ \cup {a}]
    /\ agentObj' = [agentObj EXCEPT ![p][a] = NewAgent]
    /\ UNCHANGED <<store, sessRepo, sessObj, pc, cmd, sess, queue, found, context,
                   tokensUsed, degraded, err, trace, appendLog, memEvents, memVars>>

\* Agent.deactivate / Agent.activate called on a stored agent
AgentToggle(p, a) ==
    /\ a \in agentRepo[p]
    /\ agentObj' = [agentObj EXCEPT ![p][a] =
                       IF @.is_active THEN AgentDeactivate(@) ELSE AgentActivate(@)]
    /\ UNCHANGED <<store, agentRepo, sessRepo, sessObj, pc, cmd, sess, queue, found,
                   context, tokensUsed, degraded, err, trace, appendLog, memEvents, memVars>>

\* ------------------------------------------------------------ specifications
\* the handlers of two processes sharing one table; the memory tiers answer
\* with nothing, the knowledge search answers with nothing or fails
Next ==
    \/ \E r \in Requests :
         \/ Start(r)
         \/ Handle(r, {"empty"}, {"empty", "error"}, CallOutcomes)
         \/ Retry(r)
    \/ \E p \in Procs, a \in AgentIds : RegisterAgent(p, a) \/ AgentToggle(p, a)

Spec == Init /\ [][Next]_vars

\* the memory handler's gathering in full: every source may return items,
\* return nothing, fail or never answer
GatherRequests == {1}

GatherNext ==
    \/ \E r \in GatherRequests :
         \/ Start(r)
         \/ Handle(r, RawOutcomes, RawOutcomes, CallOutcomes)
    \/ \E p \in Procs, a \in AgentIds : RegisterAgent(p, a)

GatherSpec == Init /\ [][GatherNext]_vars

\* asyncio resumes a coroutine whose awaited call has returned
GatherLive ==
    GatherSpec /\ \A r \in GatherRequests :
                     WF_vars(Handle(r, RawOutcomes, RawOutcomes, CallOutcomes))

\* the handlers with a caller that retries after ConcurrencyError
LiveSpec ==
    Spec /\ \A r \in Requests :
                /\ WF_vars(Handle(r, {"empty"}, {"empty", "error"}, CallOutcomes))
                /\ WF_vars(Retry(r))

\* ------------------------------------------------------------ direct calls
\* the aggregates' methods called one after another on an agent of one
\* repository and on one session
DirectProcs == {"p1"}
DirectSessionIds == {1}

DirectAgent(p, a) ==
    /\ a \in agentRepo[p]
    /\ LET o == agentObj[p][a]
       IN  \/ /\ o.version < MaxVersion
              /\ agentObj' = [agentObj EXCEPT ![p][a] = AgentInvoke(o, a, NoSession, FALSE, 0)]
           \/ /\ o.version < MaxVersion
              /\ \E tok \in TokenCounts :
                   agentObj' = [agentObj EXCEPT ![p][a] =
                                   AgentRecordResponse(o, a, NoSession, tok, 0)]
           \/ \E c \in Configs : agentObj' = [agentObj EXCEPT ![p][a] = AgentUpdateConfig(o, c)]
           \/ agentObj' = [agentObj EXCEPT ![p][a] = AgentDeactivate(o)]
           \/ agentObj' = [agentObj EXCEPT ![p][a] = AgentActivate(o)]
           \/ agentObj' = [agentObj EXCEPT ![p][a] = clear_domain_events(o).obj]
    /\ UNCHANGED <<store, agentRepo, sessRepo, sessObj, pc, cmd, sess, queue, found,
                   context, tokensUsed, degraded, err, trace, appendLog, memEvents, memVars>>

\* the object after a direct call, with the call's name and outcome noted
Called(o, name) == [o EXCEPT !.last = name]

DirectSession(sid) ==
    /\ \/ /\ sid \notin DOMAIN sessObj
          /\ \E a \in AgentIds : sessObj' = (sid :> SessionCreate(a, sid, 0)) @@ sessObj
       \/ /\ sid \in DOMAIN sessObj
          /\ LET o == sessObj[sid]
                 live == o.status = "active"
             IN  \/ /\ o.version < MaxVersion
                    /\ sessObj' = [sessObj EXCEPT ![sid] =
                                      Called(SessionStart(o, sid, 0), "start")]
                 \/ sessObj' = [sessObj EXCEPT ![sid] =
                                   Called(SessionEnd(o, sid, "user_ended"),
                                          IF live THEN "end" ELSE "end_raised")]
                 \/ sessObj' = [sessObj EXCEPT ![sid] =
                                   Called(SessionExpire(o, sid),
                                          IF live THEN "expire" ELSE "expire_returned")]
                 \/ /\ o.message_count < MaxVersion
                    /\ \E tok \in TokenCounts :
                         sessObj' = [sessObj EXCEPT ![sid] =
                                        Called(SessionRecordInteraction(o, tok),
                                               "record_interaction")]
                 \/ sessObj' = [sessObj EXCEPT ![sid] =
                                   Called(clear_domain_events(o).obj, "clear_domain_events")]
    /\ UNCHANGED <<store, agentRepo, agentObj, sessRepo, pc, cmd, sess, queue, found,
                   context, tokensUsed, degraded, err, trace, appendLog, memEvents, memVars>>

AggNext ==
    \/ \E p \in DirectProcs, a \in AgentIds : RegisterAgent(p, a) \/ DirectAgent(p, a)
    \/ \E sid \in DirectSessionIds : DirectSession(sid)

AggSpec == Init /\ [][AggNext]_vars

\* ------------------------------------------------------------ memory layer
\* Strings are sequences of characters, so that the f-strings of the code
\* are concatenations and two different inputs can give the same text.
MaxIdLen == 2
Alphabet == {"a", "b", "/"}

RECURSIVE StringsUpTo(_)
StringsUpTo(n) ==
    IF n = 0 THEN {<<>>}
    ELSE LET S == StringsUpTo(n - 1)
         IN  S \cup {Append(s, c) : s \in {x \in S : Len(x) = n - 1}, c \in Alphabet}

\* Python's None: a value that is no string
None == <<"None">>
\* tenant ids a caller may pass (str | None)
TenantArgs == StringsUpTo(MaxIdLen) \cup {None}
UserIds == StringsUpTo(1)

\* "if tenant_id": None and the empty string are falsy
Truthy(x) == x # None /\ x # <<>>

\* MemoryConfig: the fields the namespace builder reads, with their defaults
episode_namespace_prefix == <<"/", "e", "p", "i", "s", "o", "d", "e", "s">>
tenant_namespace_prefix == <<"/", "t", "e", "n", "a", "n", "t">>
MemoryConfig(isolation) ==
    [episode_namespace_prefix |-> episode_namespace_prefix,
     tenant_namespace_prefix |-> tenant_namespace_prefix,
     enable_tenant_isolation |-> isolation,
     enable_memory_cache |-> TRUE]

\* a builder that forgets the tenant
build_namespace_untenanted(config, user_id, tenant_id) ==
    config.episode_namespace_prefix \o <<"/">> \o user_id

\* EpisodicMemoryService._build_namespace
build_namespace(config, user_id, tenant_id) ==
    LET prefix == config.episode_namespace_prefix
    IN  IF Truthy(tenant_id) /\ config.enable_tenant_isolation
        THEN config.tenant_namespace_prefix \o <<"/">> \o tenant_id
                 \o prefix \o <<"/">> \o user_id
        ELSE prefix \o <<"/">> \o user_id

\* the window of the last two calls
Logged(call) == IF memLog = <<>> THEN <<call>> ELSE <<memLog[Len(memLog)], call>>

\* EpisodicMemoryService.retrieve_similar_episodes on a service built with
\* config: the namespace it hands to retrieve_memories
RetrieveSimilarEpisodes(config, user_id, tenant_id) ==
    /\ memLog' = Logged([op |-> "retrieve_similar_episodes",
                         config |-> config,
                         user_id |-> user_id,
                         tenant_id |-> tenant_id,
                         namespace |-> build_namespace(config, user_id, tenant_id)])
    /\ UNCHANGED <<store, agentRepo, agentObj, sessRepo, sessObj, pc, cmd, sess, queue,
                   found, context, tokensUsed, degraded, err, trace, appendLog, memEvents,
                   tmsVars, composed, stream, risk>>

NsNext ==
    \E isolation \in BOOLEAN, user_id \in UserIds, tenant_id \in TenantArgs :
        RetrieveSimilarEpisodes(MemoryConfig(isolation), user_id, tenant_id)

NsSpec == Init /\ [][NsNext]_vars

\* ------------------------------------------------ tenant and session memory
\* turns stored in one session namespace
MaxTurns == 1
MemTenants == {<<"a">>, <<"b">>}
MemUsers == {<<"a">>}
MemSessions == {<<"b">>}
\* who holds a SessionMemoryService: every tenant (through
\* TenantMemoryService) and the application itself (None)
Owners == MemTenants \cup {None}
\* what the services are constructed with.  "src": AgentCoreMemoryClient and
\* MemoryConfig as memory_client.py and memory_config.py declare them (no
\* max_session_messages field; retrieve_memories and create_event take no
\* memory_id or namespace keyword).  "doubles": a client and a configuration
\* that accept what the services pass, as the fixtures of the tests supply.
DepKinds == {"src", "doubles"}
ClientOutcomes == {"ok", "error"}

Put(f, k, v) == [x \in DOMAIN f \cup {k} |-> IF x = k THEN v ELSE f[x]]
Drop(f, K) == [x \in DOMAIN f \ K |-> f[x]]

\* TenantConfig (the limits are left at None)
TenantConfig(tenant_id, episodic) ==
    [tenant_id |-> tenant_id,
     enable_episodic_memory |-> episodic,
     enable_reflections |-> TRUE,
     namespace_prefix |-> None]

get_namespace_prefix(c) ==
    IF Truthy(c.namespace_prefix) THEN c.namespace_prefix
    ELSE tenant_namespace_prefix \o <<"/">> \o c.tenant_id

\* get_tenant_config registers a default configuration for an unknown tenant
get_tenant_config(tcs, tenant_id) ==
    IF tenant_id \in DOMAIN tcs THEN tcs
    ELSE Put(tcs, tenant_id, TenantConfig(tenant_id, TRUE))

\* _get_tenant_memory_config reads self._config.max_session_messages (the
\* tenant's own limit is None) and passes max_session_messages to MemoryConfig
ConfigRaises == deps.kind = "src"

get_tenant_memory_config(c) ==
    [deps.config EXCEPT !.enable_tenant_isolation = TRUE,
                        !.tenant_namespace_prefix = get_namespace_prefix(c)]

\* SessionContext
SessionContext(session_id, user_id) ==
    [session_id |-> session_id, user_id |-> user_id, messages |-> <<>>]
NoContext == SessionContext(None, None)

cache_key(user_id, session_id) == user_id \o <<":">> \o session_id
session_namespace(user_id, session_id) ==
    <<"/", "s", "e", "s", "s", "i", "o", "n", "s", "/">> \o user_id \o <<"/">> \o session_id
\* the namespace the episodic strategy of the store files episodes under
strategy_namespace(actor_id) == episode_namespace_prefix \o <<"/">> \o actor_id

StoredMessages(namespace) ==
    IF namespace \in DOMAIN sessionStore THEN sessionStore[namespace] ELSE <<>>

\* a service that never looks into its cache
CacheHitNever(config, cache, key) == FALSE

\* "if self._config.enable_memory_cache and cache_key in self._cache"
CacheHit(config, cache, key) == config.enable_memory_cache /\ key \in DOMAIN cache

\* SessionMemoryService.get_session: what it returns, its cache afterwards,
\* whether the store was queried and whether a context was loaded from it.
\* Stored sessions stay below max_session_messages (MaxTurns turns).
get_session(config, cache, session_id, user_id, out) ==
    LET key == cache_key(user_id, session_id)
        stored == StoredMessages(session_namespace(user_id, session_id))
        loadedCtx == [SessionContext(session_id, user_id) EXCEPT !.messages = stored]
    IN  IF CacheHit(config, cache, key)
        THEN [session |-> cache[key], cache |-> cache,
              queried |-> FALSE, loaded |-> FALSE]
        ELSE IF deps.kind = "src"
        THEN \* AttributeError / TypeError inside the try
             [session |-> SessionContext(session_id, user_id), cache |-> cache,
              queried |-> FALSE, loaded |-> FALSE]
        ELSE IF out = "error"
        THEN [session |-> SessionContext(session_id, user_id), cache |-> cache,
              queried |-> TRUE, loaded |-> FALSE]
        ELSE [session |-> loadedCtx,
              cache |-> IF config.enable_memory_cache THEN Put(cache, key, loadedCtx)
                        ELSE cache,
              queried |-> TRUE, loaded |-> TRUE]

\* "if cache_key in self._cache: self._cache[cache_key].add_message(...)"
add_turn(cache, key, turn) ==
    IF key \in DOMAIN cache
    THEN [cache EXCEPT ![key].messages = Append(@, turn)]
    ELSE cache

\* the record of a call
Call(op, tenant_id, user_id, session_id, raised, session, episodes, queried, loaded) ==
    [op |-> op, tenant_id |-> tenant_id, user_id |-> user_id, session_id |-> session_id,
     raised |-> raised, session |-> session, episodes |-> episodes,
     queried |-> queried, loaded |-> loaded]
Plain(op, tenant_id, user_id, session_id, raised) ==
    Call(op, tenant_id, user_id, session_id, raised, NoContext, {}, FALSE, FALSE)

coreVars == <<store, agentRepo, agentObj, sessRepo, sessObj, pc, cmd, sess, queue,
              found, context, tokensUsed, degraded, err, trace, appendLog, memEvents>>

\* TenantMemoryService(memory_client, config), and a SessionMemoryService the
\* application builds with the same client and configuration
Construct(kind, cacheOn) ==
    /\ deps.kind = "none"
    /\ deps' = [kind |-> kind,
                config |-> [MemoryConfig(TRUE) EXCEPT !.enable_memory_cache = cacheOn]]
    /\ services' = Put(services, <<None, "session">>, deps'.config)
    /\ sessionCache' = Put(sessionCache, None, <<>>)
    /\ lastCall' = Plain("construct", None, None, None, "")
    /\ UNCHANGED <<coreVars, memLog, composed, stream, risk, tenant_configs, sessionStore, episodeStore>>

\* register_tenant
RegisterTenant(tenant_id, episodic) ==
    /\ deps.kind # "none"
    /\ tenant_configs' = Put(tenant_configs, tenant_id, TenantConfig(tenant_id, episodic))
    /\ lastCall' = Plain("register_tenant", tenant_id, None, None, "")
    /\ UNCHANGED <<coreVars, memLog, composed, stream, risk, deps, services, sessionCache, sessionStore,
                   episodeStore>>

\* get_session_service / get_episodic_service / get_reflection_service:
\* the service dictionary after the call ("if tenant_id not in ...")
EnsureService(svcs, tenant_id, kind, c) ==
    IF <<tenant_id, kind>> \in DOMAIN svcs THEN svcs
    ELSE Put(svcs, <<tenant_id, kind>>, get_tenant_memory_config(c))
EnsureCache(caches, tenant_id) ==
    IF tenant_id \in DOMAIN caches THEN caches ELSE Put(caches, tenant_id, <<>>)

\* get_full_context: session, then episodes, then reflections
GetFullContext(tenant_id, user_id, session_id, sessOut, epOut) ==
    LET tcs == get_tenant_config(tenant_configs, tenant_id)
        c == tcs[tenant_id]
    IN  /\ deps.kind # "none"
        /\ tenant_configs' = tcs
        /\ IF <<tenant_id, "session">> \notin DOMAIN services /\ ConfigRaises
           THEN /\ lastCall' = Plain("get_full_context", tenant_id, user_id, session_id,
                                     "AttributeError")
                /\ UNCHANGED <<services, sessionCache>>
           ELSE LET svcs1 == EnsureService(services, tenant_id, "session", c)
                    caches1 == EnsureCache(sessionCache, tenant_id)
                    g == get_session(svcs1[<<tenant_id, "session">>], caches1[tenant_id],
                                     session_id, user_id, sessOut)
                    svcs2 == IF c.enable_episodic_memory
                             THEN EnsureService(svcs1, tenant_id, "episodic", c)
                             ELSE svcs1
                    \* retrieve_similar_episodes(user_id=user_id, query=query)
                    namespace == build_namespace(svcs2[<<tenant_id, "episodic">>],
                                                 user_id, None)
                    episodes == IF c.enable_episodic_memory /\ epOut = "ok"
                                THEN {e \in episodeStore : e.namespace = namespace}
                                ELSE {}
                    \* the reflection service is created; what it retrieves is
                    \* in reflection_service.py
                    svcs3 == IF c.enable_reflections
                             THEN EnsureService(svcs2, tenant_id, "reflection", c)
                             ELSE svcs2
                IN  /\ services' = svcs3
                    /\ sessionCache' = [caches1 EXCEPT ![tenant_id] = g.cache]
                    /\ lastCall' = Call("get_full_context", tenant_id, user_id, session_id,
                                        "", g.session, episodes, g.queried, g.loaded)
        /\ UNCHANGED <<coreVars, memLog, composed, stream, risk, deps, sessionStore, episodeStore>>

\* TenantMemoryService.save_interaction: save_turn on the tenant's session
\* service, then save_interaction on its episodic service (no tenant_id)
TenantSaveInteraction(tenant_id, user_id, session_id, sessOut, epOut) ==
    LET tcs == get_tenant_config(tenant_configs, tenant_id)
        c == tcs[tenant_id]
        key == cache_key(user_id, session_id)
        namespace == session_namespace(user_id, session_id)
        turn == [owner |-> tenant_id]
    IN  /\ deps.kind # "none"
        /\ Len(StoredMessages(namespace)) < MaxTurns
        /\ tenant_configs' = tcs
        /\ IF <<tenant_id, "session">> \notin DOMAIN services /\ ConfigRaises
           THEN /\ lastCall' = Plain("save_interaction", tenant_id, user_id, session_id,
                                     "AttributeError")
                /\ UNCHANGED <<services, sessionCache, sessionStore, episodeStore>>
           ELSE LET svcs1 == EnsureService(services, tenant_id, "session", c)
                    caches1 == EnsureCache(sessionCache, tenant_id)
                IN  IF sessOut = "error"
                    THEN /\ services' = svcs1
                         /\ sessionCache' = caches1
                         /\ lastCall' = Plain("save_interaction", tenant_id, user_id,
                                              session_id, "ClientError")
                         /\ UNCHANGED <<sessionStore, episodeStore>>
                    ELSE /\ sessionStore' = Put(sessionStore, namespace,
                                                Append(StoredMessages(namespace), turn))
                         /\ sessionCache' = [caches1 EXCEPT
                                ![tenant_id] = add_turn(@, key, turn)]
                         /\ IF ~c.enable_episodic_memory
                            THEN /\ services' = svcs1
                                 /\ lastCall' = Plain("save_interaction", tenant_id,
                                                      user_id, session_id, "")
                                 /\ UNCHANGED episodeStore
                            ELSE /\ services' = EnsureService(svcs1, tenant_id, "episodic", c)
                                 /\ IF epOut = "error"
                                    THEN /\ lastCall' = Plain("save_interaction", tenant_id,
                                                user_id, session_id, "ClientError")
                                         /\ UNCHANGED episodeStore
                                    ELSE /\ lastCall' = Plain("save_interaction", tenant_id,
                                                user_id, session_id, "")
                                         \* create_event(actor_id, session_id, messages,
                                         \* metadata): no tenant_id in the metadata
                                         /\ episodeStore' = episodeStore \cup
                                                {[namespace |-> strategy_namespace(user_id),
                                                  tenant_tag |-> None,
                                                  owner |-> tenant_id]}
        /\ UNCHANGED <<coreVars, memLog, composed, stream, risk, deps>>

\* get_session on a SessionMemoryService the caller holds
GetSession(owner, session_id, user_id, out) ==
    /\ <<owner, "session">> \in DOMAIN services
    /\ LET g == get_session(services[<<owner, "session">>], sessionCache[owner],
                            session_id, user_id, out)
       IN  /\ sessionCache' = [sessionCache EXCEPT ![owner] = g.cache]
           /\ lastCall' = Call("get_session", owner, user_id, session_id, "",
                               g.session, {}, g.queried, g.loaded)
    /\ UNCHANGED <<coreVars, memLog, composed, stream, risk, deps, tenant_configs, services, sessionStore,
                   episodeStore>>

\* save_turn on a SessionMemoryService the caller holds
SaveTurn(owner, session_id, user_id, out) ==
    LET key == cache_key(user_id, session_id)
        namespace == session_namespace(user_id, session_id)
        turn == [owner |-> owner]
    IN  /\ <<owner, "session">> \in DOMAIN services
        /\ Len(StoredMessages(namespace)) < MaxTurns
        /\ IF deps.kind = "src" \/ out = "error"
           THEN \* create_event raises (TypeError for the keywords memory_id
                \* and namespace, or the platform's error): logged and re-raised
                /\ lastCall' = Plain("save_turn", owner, user_id, session_id,
                                     IF deps.kind = "src" THEN "TypeError" ELSE "ClientError")
                /\ UNCHANGED <<sessionStore, sessionCache>>
           ELSE /\ sessionStore' = Put(sessionStore, namespace,
                                       Append(StoredMessages(namespace), turn))
                /\ sessionCache' = [sessionCache EXCEPT ![owner] = add_turn(@, key, turn)]
                /\ lastCall' = Plain("save_turn", owner, user_id, session_id, "")
        /\ UNCHANGED <<coreVars, memLog, composed, stream, risk, deps, tenant_configs, services, episodeStore>>

\* clear_session
ClearSession(owner, session_id, user_id) ==
    /\ <<owner, "session">> \in DOMAIN services
    /\ sessionCache' = [sessionCache EXCEPT
            ![owner] = Drop(@, {cache_key(user_id, session_id)})]
    /\ lastCall' = Plain("clear_session", owner, user_id, session_id, "")
    /\ UNCHANGED <<coreVars, memLog, composed, stream, risk, deps, tenant_configs, services, sessionStore,
                   episodeStore>>

\* invalidate_cache(session_id, user_id): one key when both are given and
\* truthy, the whole cache otherwise
InvalidateCache(owner, session_id, user_id) ==
    /\ <<owner, "session">> \in DOMAIN services
    /\ sessionCache' = [sessionCache EXCEPT
            ![owner] = IF Truthy(session_id) /\ Truthy(user_id)
                       THEN Drop(@, {cache_key(user_id, session_id)})
                       ELSE <<>>]
    /\ lastCall' = Plain("invalidate_cache", owner, user_id, session_id, "")
    /\ UNCHANGED <<coreVars, memLog, composed, stream, risk, deps, tenant_configs, services, sessionStore,
                   episodeStore>>

\* clear_tenant_cache
ClearTenantCache(tenant_id) ==
    /\ deps.kind # "none"
    /\ sessionCache' = IF <<tenant_id, "session">> \in DOMAIN services
                       THEN [sessionCache EXCEPT ![tenant_id] = <<>>]
                       ELSE sessionCache
    /\ lastCall' = Plain("clear_tenant_cache", tenant_id, None, None, "")
    /\ UNCHANGED <<coreVars, memLog, composed, stream, risk, deps, tenant_configs, services, sessionStore,
                   episodeStore>>

\* remove_tenant: the configuration and the three services are dropped
RemoveTenant(tenant_id) ==
    /\ deps.kind # "none"
    /\ tenant_configs' = Drop(tenant_configs, {tenant_id})
    /\ services' = Drop(services, {<<tenant_id, k>> : k \in {"session", "episodic", "reflection"}})
    /\ sessionCache' = Drop(sessionCache, {tenant_id})
    /\ lastCall' = Plain("remove_tenant", tenant_id, None, None, "")
    /\ UNCHANGED <<coreVars, memLog, composed, stream, risk, deps, sessionStore, episodeStore>>

MemNext ==
    \/ \E kind \in DepKinds, cacheOn \in BOOLEAN : Construct(kind, cacheOn)
    \/ \E t \in MemTenants, episodic \in BOOLEAN : RegisterTenant(t, episodic)
    \/ \E t \in MemTenants, u \in MemUsers, s \in MemSessions, o1, o2 \in ClientOutcomes :
          \/ GetFullContext(t, u, s, o1, o2)
          \/ TenantSaveInteraction(t, u, s, o1, o2)
    \/ \E o \in Owners, u \in MemUsers, s \in MemSessions, out \in ClientOutcomes :
          \/ GetSession(o, s, u, out)
          \/ SaveTurn(o, s, u, out)
          \/ ClearSession(o, s, u)
    \/ \E o \in Owners, u \in MemUsers \cup {None}, s \in MemSessions \cup {None} :
          InvalidateCache(o, s, u)
    \/ \E t \in MemTenants : ClearTenantCache(t) \/ RemoveTenant(t)

MemSpec == Init /\ [][MemNext]_vars

\* one SessionMemoryService held by the application, called with user and
\* session ids that are arbitrary strings (here with and without a colon)
KeyUsers == {<<"a">>, <<"a", ":", "b">>}
KeySessions == {<<"c">>, <<"b", ":", "c">>}

KeyNext ==
    \/ \E kind \in DepKinds, cacheOn \in BOOLEAN : Construct(kind, cacheOn)
    \/ \E u \in KeyUsers, s \in KeySessions, out \in ClientOutcomes :
          \/ GetSession(None, s, u, out)
          \/ SaveTurn(None, s, u, out)
          \/ ClearSession(None, s, u)

KeySpec == Init /\ [][KeyNext]_vars

\* the tenant registry and the per-tenant service dictionaries on their own:
\* one tenant, registered with or without a custom namespace prefix
RegTenants == {<<"a">>}
CustomPrefixes == {None, <<"/", "x">>}

\* register_tenant(tenant_config)
RegisterTenantWith(tenant_config) ==
    /\ deps.kind # "none"
    /\ tenant_configs' = Put(tenant_configs, tenant_config.tenant_id, tenant_config)
    /\ lastCall' = Plain("register_tenant", tenant_config.tenant_id, None, None, "")
    /\ UNCHANGED <<coreVars, memLog, composed, stream, risk, deps, services, sessionCache,
                   sessionStore, episodeStore>>

\* "if tenant_id not in self._..._services": a service is built from the
\* tenant's configuration of that moment, a stored one is returned as it is
\* the record of get_*_service: the configuration of the service returned
Returned(tenant_id, kind, raised, config) ==
    [op |-> "get_service", tenant_id |-> tenant_id, kind |-> kind, raised |-> raised,
     config |-> config]

\* get_episodic_service / get_reflection_service / get_session_service
GetService(tenant_id, kind) ==
    LET tcs == get_tenant_config(tenant_configs, tenant_id)
        c == tcs[tenant_id]
        disabled == \/ kind = "episodic" /\ ~c.enable_episodic_memory
                    \/ kind = "reflection" /\ ~c.enable_reflections
        missing == <<tenant_id, kind>> \notin DOMAIN services
        built == Put(services, <<tenant_id, kind>>, get_tenant_memory_config(c))
    IN  /\ deps.kind # "none"
        /\ IF kind = "session" /\ ~missing
           THEN \* the stored service is returned, get_tenant_config is not called
                /\ lastCall' = Returned(tenant_id, kind, "", services[<<tenant_id, kind>>])
                /\ UNCHANGED <<tenant_configs, services, sessionCache>>
           ELSE /\ tenant_configs' = tcs
                /\ IF disabled
                   THEN /\ lastCall' = Returned(tenant_id, kind, "ValueError", None)
                        /\ UNCHANGED <<services, sessionCache>>
                   ELSE IF ~missing
                   THEN /\ lastCall' = Returned(tenant_id, kind, "",
                                                services[<<tenant_id, kind>>])
                        /\ UNCHANGED <<services, sessionCache>>
                   ELSE IF ConfigRaises
                   THEN /\ lastCall' = Returned(tenant_id, kind, "AttributeError", None)
                        /\ UNCHANGED <<services, sessionCache>>
                   ELSE /\ services' = built
                        /\ sessionCache' = IF kind = "session"
                                           THEN EnsureCache(sessionCache, tenant_id)
                                           ELSE sessionCache
                        /\ lastCall' = Returned(tenant_id, kind, "",
                                                built[<<tenant_id, kind>>])
        /\ UNCHANGED <<coreVars, memLog, composed, stream, risk, deps, sessionStore,
                       episodeStore>>

RegNext ==
    \/ \E kind \in DepKinds, cacheOn \in BOOLEAN : Construct(kind, cacheOn)
    \/ \E t \in RegTenants, episodic \in BOOLEAN, prefix \in CustomPrefixes :
          RegisterTenantWith([TenantConfig(t, episodic) EXCEPT !.namespace_prefix = prefix])
    \/ \E t \in RegTenants, kind \in {"session", "episodic", "reflection"} : GetService(t, kind)
    \/ \E t \in RegTenants : RemoveTenant(t)

RegSpec == Init /\ [][RegNext]_vars

\* ------------------------------------------------------ context composition
\* A text is the sequence of its lines.  Items stand for the rendered fields
\* of a search result, an episode or a message; the bounded lists stay below
\* episode_context_max_chars and the session's message limit, so that
\* nothing is truncated.
MaxItems == 2
Items == {"x", "y"}
ItemLists == UNION {[1..n -> Items] : n \in 0..MaxItems}

RagHeader == "## Relevant Knowledge Base Information:"
EpisodeHeader == "## Past Similar Experiences:"
\* the heading of to_prompt_context (Japanese for "conversation history")
SessionHeader == "## history:"
ReflectionHeader == "## Insights from Past Experience:"
\* what build_reflection_prompt may hand back for a non-empty list
ReflectionPrompts == {<<>>} \cup {<<ReflectionHeader>> \o l : l \in ItemLists \ {<<>>}}

Ordinal(i) == <<"1", "2", "3", "4">>[i]

RECURSIVE Numbered(_, _, _)
\* enumerate(items, 1): one numbered heading and the item's text per item
Numbered(label, items, i) ==
    IF i > Len(items) THEN <<>>
    ELSE <<label, Ordinal(i), items[i]>> \o Numbered(label, items, i + 1)

RECURSIVE join(_, _)
\* sep.join(parts)
join(sep, parts) ==
    IF parts = <<>> THEN <<>>
    ELSE IF Len(parts) = 1 THEN parts[1]
    ELSE parts[1] \o sep \o join(sep, Tail(parts))

\* SubmitQuestionWithMemoryHandler._build_rag_context
build_rag_context(search_results) ==
    IF search_results = <<>> THEN None
    ELSE <<RagHeader>> \o Numbered("### Source", search_results, 1)

\* EpisodicMemoryService.build_episode_context
build_episode_context(episodes) ==
    IF episodes = <<>> THEN <<>>
    ELSE <<EpisodeHeader>> \o Numbered("### Experience", episodes, 1)

\* SessionContext.to_prompt_context
to_prompt_context(messages) ==
    IF messages = <<>> THEN <<>>
    ELSE <<SessionHeader>> \o messages

\* "if x: context_parts.append(x)"
Part(x) == IF Truthy(x) THEN <<x>> ELSE <<>>

\* a composer that joins whatever the sources rendered, empty or not
build_enriched_context_joined(search_results, episodes, reflections, reflection_prompt) ==
    join(<<"", "---", "">>,
         <<reflection_prompt, build_episode_context(episodes),
           IF search_results = <<>> THEN <<>> ELSE build_rag_context(search_results)>>)

\* SubmitQuestionWithMemoryHandler._build_enriched_context
build_enriched_context(search_results, episodes, reflections, reflection_prompt) ==
    LET context_parts ==
            (IF reflections # <<>> THEN Part(reflection_prompt) ELSE <<>>)
            \o (IF episodes # <<>> THEN Part(build_episode_context(episodes)) ELSE <<>>)
            \o (IF search_results # <<>> THEN Part(build_rag_context(search_results))
                ELSE <<>>)
    IN  IF context_parts = <<>> THEN None
        ELSE join(<<"", "---", "">>, context_parts)

\* TenantMemoryService._build_full_context_prompt (session is None or the
\* list of the session's messages)
build_full_context_prompt(session, episodes, reflections, tenant_config, reflection_prompt) ==
    LET sections ==
            (IF Truthy(session) THEN Part(to_prompt_context(session)) ELSE <<>>)
            \o (IF episodes # <<>> /\ tenant_config.enable_episodic_memory
                THEN Part(build_episode_context(episodes)) ELSE <<>>)
            \o (IF reflections # <<>> /\ tenant_config.enable_reflections
                THEN Part(reflection_prompt) ELSE <<>>)
    IN  join(<<"">>, sections)

\* reflections holds the rendered reflection section (empty when the list is
\* empty or rendered to nothing)
Composition(composer, session, search_results, episodes, reflections, output) ==
    [composer |-> composer, session |-> session, search_results |-> search_results,
     episodes |-> episodes, reflections |-> reflections, output |-> output]

\* a behaviour composes one context: the composers keep no state
ComposeEnriched(search_results, episodes, reflections, reflection_prompt) ==
    /\ composed.composer = "none"
    /\ composed' = Composition("_build_enriched_context", None, search_results, episodes,
                       IF reflections = <<>> THEN <<>> ELSE reflection_prompt,
                       build_enriched_context(search_results, episodes, reflections,
                                              reflection_prompt))
    /\ UNCHANGED <<coreVars, memLog, tmsVars, stream, risk>>

ComposeFull(session, episodes, reflections, tenant_config, reflection_prompt) ==
    /\ composed.composer = "none"
    /\ composed' = Composition("_build_full_context_prompt", session, <<>>,
                       IF tenant_config.enable_episodic_memory THEN episodes ELSE <<>>,
                       IF reflections # <<>> /\ tenant_config.enable_reflections
                       THEN reflection_prompt ELSE <<>>,
                       build_full_context_prompt(session, episodes, reflections,
                                                 tenant_config, reflection_prompt))
    /\ UNCHANGED <<coreVars, memLog, tmsVars, stream, risk>>

ComposeNext ==
    \E search_results, episodes, reflections \in ItemLists,
       reflection_prompt \in ReflectionPrompts :
        \/ ComposeEnriched(search_results, episodes, reflections, reflection_prompt)
        \/ \E session \in ItemLists \cup {None}, episodic \in BOOLEAN :
              ComposeFull(session, episodes, reflections,
                          TenantConfig(<<"a">>, episodic), reflection_prompt)

ComposeSpec == Init /\ [][ComposeNext]_vars

\* ------------------------------------------------ StrandsAgentWrapper.stream
\* The async generator, one step per await or yield, and its consumer, which
\* asks for the next chunk or stops iterating.
BaseChunks == <<"c1", "c2", "c3", "c4">>
RagChunks == <<"k1", "k2", "k3", "k4", "k5", "k6">>
ClosingChunks == <<"q1", "q2", "q3">>
\* what an awaited retrieval does: returns items, returns nothing, raises
SearchOutcomes == {"items", "empty", "error"}

\* the chunks list built in step 4
chunks(rag_context) ==
    BaseChunks \o (IF rag_context THEN RagChunks ELSE <<>>) \o ClosingChunks

\* a loop that ends after its first chunk
LoopDoneEarly(pending) == TRUE

\* "for chunk in chunks": the loop is over when no chunk is left
LoopDone(pending) == pending = <<>>

\* stream(...) is called with or without an s3vector_client
StreamStart(has_client) ==
    /\ stream.pc = "idle"
    /\ stream' = [pc |-> IF has_client THEN "search" ELSE "episodes",
                  rag_context |-> FALSE, episodes |-> FALSE, reflections |-> FALSE,
                  retrieved |-> {}, pending |-> <<>>,
                  yielded |-> <<>>, full_response |-> <<>>, saved |-> <<>>]
    /\ UNCHANGED <<coreVars, memLog, tmsVars, composed, risk>>

\* 1. the knowledge search, inside try/except: a failure is logged
StreamSearch(out) ==
    /\ stream.pc = "search"
    /\ stream' = [stream EXCEPT !.pc = "episodes",
                                !.rag_context = (out = "items"),
                                !.retrieved = @ \cup {"search"}]
    /\ UNCHANGED <<coreVars, memLog, tmsVars, composed, risk>>

\* 2. retrieve_similar_episodes (retrieve_memories returns [] on failure)
StreamEpisodes(out) ==
    /\ stream.pc = "episodes"
    /\ stream' = [stream EXCEPT !.pc = "reflections",
                                !.episodes = (out = "items"),
                                !.retrieved = @ \cup {"episodes"}]
    /\ UNCHANGED <<coreVars, memLog, tmsVars, composed, risk>>

\* 3. retrieve_relevant_reflections returns, or raises out of the generator;
\* then 4. the chunks are built
StreamReflections(out) ==
    /\ stream.pc = "reflections"
    /\ stream' = IF out = "error"
                 THEN [stream EXCEPT !.pc = "raised"]
                 ELSE [stream EXCEPT !.pc = "yield",
                                     !.reflections = (out = "items"),
                                     !.retrieved = @ \cup {"reflections"},
                                     !.pending = chunks(stream.rag_context)]
    /\ UNCHANGED <<coreVars, memLog, tmsVars, composed, risk>>

\* the consumer asks for the next chunk: "full_response += chunk; yield chunk",
\* or the loop is over and the generator goes on to step 5
StreamNext ==
    /\ stream.pc = "yield"
    /\ stream' = IF LoopDone(stream.pending)
                 THEN [stream EXCEPT !.pc = "save"]
                 ELSE [stream EXCEPT !.pending = Tail(@),
                                     !.full_response = Append(@, Head(stream.pending)),
                                     !.yielded = Append(@, Head(stream.pending))]
    /\ UNCHANGED <<coreVars, memLog, tmsVars, composed, risk>>

\* the consumer stops iterating: the generator is closed at its yield
StreamClose ==
    /\ stream.pc = "yield"
    /\ stream.yielded # <<>>
    /\ stream' = [stream EXCEPT !.pc = "closed"]
    /\ UNCHANGED <<coreVars, memLog, tmsVars, composed, risk>>

\* 5. save_interaction(assistant_response=full_response), awaited unguarded
StreamSave(out) ==
    /\ stream.pc = "save"
    /\ stream' = [stream EXCEPT !.pc = IF out = "error" THEN "raised" ELSE "done",
                                !.saved = Append(@, stream.full_response)]
    /\ UNCHANGED <<coreVars, memLog, tmsVars, composed, risk>>

StreamingNext ==
    \/ \E has_client \in BOOLEAN : StreamStart(has_client)
    \/ \E out \in SearchOutcomes :
          StreamSearch(out) \/ StreamEpisodes(out) \/ StreamReflections(out)
    \/ StreamNext
    \/ StreamClose
    \/ \E out \in CallOutcomes : StreamSave(out)

StreamSpec == Init /\ [][StreamingNext]_vars

\* ------------------------------------------------------ pattern applicator
\* Confidences are counted in tenths (0.7 is 7), so that the average of a
\* list is compared exactly: sum / count > 0.7 iff sum > 7 * count.  With one
\* pattern the float division is exact, with two or more the count decides.
MaxPatterns == 2
HighConfidence == 7
MediumConfidence == 5
FailureLists == UNION {[1..n -> {3, 5, 6, 7, 8}] : n \in 0..MaxPatterns}

RECURSIVE sum(_)
sum(l) == IF l = <<>> THEN 0 ELSE Head(l) + sum(Tail(l))

\* PatternApplicator._assess_risk_level
assess_risk_level(failure_patterns, success_count) ==
    LET failure_count == Len(failure_patterns)
        above(threshold) == sum(failure_patterns) > threshold * failure_count
    IN  IF failure_count > 0 /\ (above(HighConfidence) \/ failure_count >= 2)
        THEN "high"
        ELSE IF failure_count > 0 /\ above(MediumConfidence)
        THEN "medium"
        ELSE IF success_count > failure_count
        THEN "low"
        ELSE IF failure_count > 0 THEN "medium" ELSE "low"

\* a behaviour assesses one analysis: the applicator keeps no state
AssessRisk(failure_patterns, success_count) ==
    /\ risk.level = "none"
    /\ risk' = [failure_patterns |-> failure_patterns,
                success_count |-> success_count,
                level |-> assess_risk_level(failure_patterns, success_count)]
    /\ UNCHANGED <<coreVars, memLog, tmsVars, composed, stream>>

RiskNext ==
    \E failure_patterns \in FailureLists, success_count \in 0..(MaxPatterns + 1) :
        AssessRisk(failure_patterns, success_count)

RiskSpec == Init /\ [][RiskNext]_vars

\* ------------------------------------------------------------ claims
\* C1: of all append calls made for one item key, by any writers in any
\* interleaving, exactly one succeeded and every other raised ConcurrencyError.
C1_ExactlyOneAppendWins ==
    \A l \in appendLog :
        /\ Cardinality({m \in appendLog : m.key = l.key /\ m.result = "ok"}) = 1
        /\ l.result \in {"ok", "ConcurrencyError"}
        /\ l.key \in DOMAIN store

\* two writers have called append for the same key: one won, one lost
C1_Witness ==
    \E l, m \in appendLog :
        /\ l.key = m.key
        /\ l.writer # m.writer
        /\ l.result = "ok"
        /\ m.result = "ConcurrencyError"

\* C2: an event stored under a key stays there unchanged whatever is called
\* later, and an append that raises ConcurrencyError leaves the table as it was.
C2_WriteOnce ==
    [][/\ \A k \in DOMAIN store : k \in DOMAIN store' /\ store'[k] = store[k]
       /\ \A l \in appendLog' \ appendLog : l.result # "ok" => store' = store]_vars

\* an append for a key that holds another writer's event has been refused
C2_Witness ==
    \E l \in appendLog :
        /\ l.result = "ConcurrencyError"
        /\ l.key \in DOMAIN store
        /\ store[l.key].origin # l.origin

\* C3: the k-th event an aggregate that started at version 0 has emitted
\* carries version k, and the aggregate's version is the number of events
\* it has emitted.
VersionsInOrder(o) ==
    /\ o.version = Len(o.log)
    /\ \A k \in 1..Len(o.log) : o.log[k].version = k

C3_VersionsOneToN ==
    /\ \A p \in Procs, a \in AgentIds : VersionsInOrder(agentObj[p][a])
    /\ \A sid \in DOMAIN sessObj : VersionsInOrder(sessObj[sid])

\* an agent and a session that have each emitted several events
C3_Witness ==
    /\ \E p \in Procs, a \in AgentIds : Len(agentObj[p][a].log) >= 3
    /\ \E sid \in DOMAIN sessObj : Len(sessObj[sid].log) >= 2

\* C4: every aggregate method that changes a field of the aggregate adds
\* exactly one event and raises version by exactly one.
AgentFields(o) == <<o.is_active, o.config>>

SessionFields(o) == <<o.status, o.message_count, o.total_tokens, o.ended>>

OneEventEmitted(o, n) == Len(n.log) = Len(o.log) + 1 /\ n.version = o.version + 1

C4_EveryMutationEmitsOneEvent ==
    [][/\ \A p \in Procs, a \in AgentIds :
            AgentFields(agentObj'[p][a]) # AgentFields(agentObj[p][a])
                => OneEventEmitted(agentObj[p][a], agentObj'[p][a])
       /\ \A sid \in DOMAIN sessObj \cap DOMAIN sessObj' :
            SessionFields(sessObj'[sid]) # SessionFields(sessObj[sid])
                => OneEventEmitted(sessObj[sid], sessObj'[sid])]_vars

\* C5: a handle() call that finds its agent missing or inactive raises the
\* validation error and nothing else happens: no session, no retrieval, no
\* model call, no append, no save.
ValidationErrors == {"Agent not found", "Agent is not active"}

Unusable(r) ==
    \/ cmd[r].agent_id \notin agentRepo[cmd[r].proc]
    \/ ~agentObj[cmd[r].proc][cmd[r].agent_id].is_active

C5_RejectedBeforeSideEffects ==
    /\ [](\A r \in Requests :
            (pc[r] = "failed" /\ err[r] \in ValidationErrors) => trace[r] = <<>>)
    /\ [][\A r \in Requests :
            (pc[r] = "load_agent" /\ pc'[r] # "load_agent" /\ Unusable(r))
                => /\ pc'[r] = "failed"
                   /\ err'[r] \in ValidationErrors
                   /\ UNCHANGED <<store, agentRepo, agentObj, sessRepo, sessObj,
                                  memEvents, appendLog, trace>>]_vars

\* one request was refused for a missing agent, another for an inactive one
C5_Witness ==
    \E q, r \in Requests :
        /\ pc[q] = "failed" /\ err[q] = "Agent not found"
        /\ pc[r] = "failed" /\ err[r] = "Agent is not active"

\* C6: when an append finds its key taken, handle() ends with
\* ConcurrencyError and calls neither repository's save.
C6_ConflictPropagates ==
    /\ [](\A r \in Requests :
            (pc[r] = "failed" /\ err[r] = "ConcurrencyError")
                => \A i \in 1..Len(trace[r]) : trace[r][i] \notin {"save_agent", "save_session"})
    /\ [][\A r \in Requests :
            (/\ pc[r] \in {"append_agent", "append_session"}
             /\ trace'[r] # trace[r]
             /\ StoreKey(Head(queue[r])) \in DOMAIN store)
                => /\ pc'[r] = "failed"
                   /\ err'[r] = "ConcurrencyError"
                   /\ UNCHANGED <<agentRepo, sessRepo>>]_vars

\* a request has ended with ConcurrencyError
C6_Witness ==
    \E r \in Requests : pc[r] = "failed" /\ err[r] = "ConcurrencyError"

Pos(tr, x) == {i \in 1..Len(tr) : tr[i] = x}

Before(tr, xs, ys) ==
    \A x \in xs, y \in ys : \A i \in Pos(tr, x), j \in Pos(tr, y) : i < j

Present(tr, xs) == \A x \in xs : Pos(tr, x) # {}

MemoryDone(r) == pc[r] = "done" /\ cmd[r].kind = "memory"

LoadSteps == {"load_agent", "load_session"}
GatherSteps == {"episodic", "reflection", "search"}
RecordSteps == {"invoke", "record_response"}
PersistSteps == {"append", "save_agent", "save_session"}

C9_SourceFailureNeverPropagates ==
    \A r \in Requests : ~(pc[r] = "failed" /\ err[r] = "search_error")

\* C10: a request that is gathering context always gets past it, whether or
\* not a source answers.
Gathering == {"episodic", "reflection", "search", "blocked"}

C10_NoSourceBlocks ==
    \A r \in Requests : (pc[r] \in Gathering) ~> (pc[r] \notin Gathering)

\* C11 as claimed: a failure of save_interaction never fails the turn.
C11_SaveFailureDoesNotFailTurn ==
    \A r \in Requests : ~(pc[r] = "failed" /\ err[r] = "memory_error")

\* C12 as claimed: nothing a request emitted is in the table once its
\* language-model call has failed (the request was not a retry).
C12_FailedTurnLeavesNoEvent ==
    \A r \in Requests :
        (pc[r] = "failed" /\ err[r] = "llm_error" /\ cmd[r].retries = 0)
            => \A k \in DOMAIN store : store[k].origin # r

\* C13: a session's status only changes from active to ended or expired;
\* a status that is ended or expired never changes again.
Terminal == {"ended", "expired"}

C13_StatusOneWay ==
    [][\A sid \in DOMAIN sessObj \cap DOMAIN sessObj' :
          sessObj'[sid].status # sessObj[sid].status
              => sessObj[sid].status = "active" /\ sessObj'[sid].status \in Terminal]_vars

\* start or record_interaction has been called on a session that is over
C13_Witness ==
    \E sid \in DOMAIN sessObj :
        /\ sessObj[sid].status \in Terminal
        /\ sessObj[sid].last \in {"start", "record_interaction"}

\* C14: end() and expire() called on a session that is not active leave
\* status, ended_at, version, the counters and the pending buffer as they
\* were, and no session ever emits a second SessionEnded.
SessionState(o) ==
    <<o.status, o.ended, o.version, o.events, o.message_count, o.total_tokens, o.log>>

EndedEvents(o) == {k \in 1..Len(o.log) : o.log[k].event_type = "SessionEnded"}

C14_EndOnClosedSessionIsNoOp ==
    /\ [](\A sid \in DOMAIN sessObj : Cardinality(EndedEvents(sessObj[sid])) <= 1)
    /\ [][\A sid \in DOMAIN sessObj \cap DOMAIN sessObj' :
            (/\ sessObj'[sid] # sessObj[sid]
             /\ sessObj'[sid].last \in {"end_raised", "expire_returned"})
                => SessionState(sessObj'[sid]) = SessionState(sessObj[sid])]_vars

\* expire() has just been called on a session that had ended before
C14_Witness ==
    \E sid \in DOMAIN sessObj :
        /\ sessObj[sid].last = "expire_returned"
        /\ sessObj[sid].status = "ended"
        /\ Cardinality(EndedEvents(sessObj[sid])) = 1

\* C15 as claimed: once a request with session id S has succeeded, a request
\* of the same process with the same S loads that session and creates none.
C15_SessionCreatedOnce ==
    [][\A q, r \in Requests :
          (/\ q # r
           /\ pc[q] = "done"
           /\ pc[r] = "load_session" /\ pc'[r] # "load_session"
           /\ cmd[q].proc = cmd[r].proc
           /\ cmd[q].session_id = cmd[r].session_id)
              => sessObj' = sessObj /\ sess'[r] = sess[q]]_vars

\* C16 as claimed: the events stored for an aggregate, replayed in ascending
\* version order, give the aggregate's state.  Replay starts from the newly
\* built aggregate and makes, per event, the change its emitting method makes.
RECURSIVE ReplayAgent(_)
ReplayAgent(events) ==
    IF events = <<>> THEN [is_active |-> NewAgent.is_active, version |-> NewAgent.version]
    ELSE LET e == events[Len(events)]
             before == ReplayAgent(SubSeq(events, 1, Len(events) - 1))
         IN  [before EXCEPT !.version = e.version]

RECURSIVE ReplaySession(_)
ReplaySession(events) ==
    IF events = <<>>
    THEN [status |-> "active", message_count |-> 0, total_tokens |-> 0, version |-> 0]
    ELSE LET e == events[Len(events)]
             before == ReplaySession(SubSeq(events, 1, Len(events) - 1))
         IN  IF e.event_type = "SessionEnded"
             THEN [status |-> IF e.reason = "expired" THEN "expired" ELSE "ended",
                   message_count |-> e.message_count,
                   total_tokens |-> e.total_tokens,
                   version |-> e.version]
             ELSE [before EXCEPT !.version = e.version]

Quiescent == \A r \in Requests : pc[r] \in {"idle", "done"}

C16_ReplayReproducesState ==
    Quiescent =>
        /\ \A p \in Procs : \A a \in agentRepo[p] :
              ReplayAgent(get_all_events(store, "Agent", a))
                  = [is_active |-> agentObj[p][a].is_active, version |-> agentObj[p][a].version]
        /\ \A sid \in SavedSessions :
              ReplaySession(get_all_events(store, "AgentSession", sid))
                  = [status |-> sessObj[sid].status,
                     message_count |-> sessObj[sid].message_count,
                     total_tokens |-> sessObj[sid].total_tokens,
                     version |-> sessObj[sid].version]

\* C17: clear_domain_events returns the buffer as it stands and empties it,
\* a second call returns nothing, and no other field changes; the buffer
\* grows only by the event just emitted and shrinks only to empty.
Aggregates ==
    {agentObj[p][a] : p \in Procs, a \in AgentIds} \cup {sessObj[sid] : sid \in DOMAIN sessObj}

BufferStep(o, n) ==
    \/ n.events = o.events
    \/ /\ Len(n.log) = Len(o.log) + 1
       /\ n.events = Append(o.events, n.log[Len(n.log)])
    \/ /\ n.events = <<>>
       /\ n.log = o.log
       /\ n.version = o.version

C17_ClearDrainsBuffer ==
    /\ [](\A o \in Aggregates :
            LET c == clear_domain_events(o)
            IN  /\ c.returned = o.events
                /\ c.obj = [o EXCEPT !.events = <<>>]
                /\ clear_domain_events(c.obj).returned = <<>>
                /\ \E k \in 0..Len(o.log) : o.events = SubSeq(o.log, k + 1, Len(o.log)))
    /\ [][/\ \A p \in Procs, a \in AgentIds : BufferStep(agentObj[p][a], agentObj'[p][a])
          /\ \A sid \in DOMAIN sessObj \cap DOMAIN sessObj' :
                BufferStep(sessObj[sid], sessObj'[sid])]_vars

\* an aggregate was drained and has emitted again since
C17_Witness ==
    \E o \in Aggregates : Len(o.events) >= 1 /\ Len(o.events) < Len(o.log)

\* C18: the episode namespace depends on nothing but the configuration, the
\* user id and the tenant id, and with tenant isolation enabled two distinct
\* tenant ids give, for the same user, two distinct namespaces.
C18_NamespaceSeparatesTenants ==
    /\ \A i, j \in DOMAIN memLog :
          /\ (/\ memLog[i].config = memLog[j].config
              /\ memLog[i].user_id = memLog[j].user_id
              /\ memLog[i].tenant_id = memLog[j].tenant_id)
                 => memLog[i].namespace = memLog[j].namespace
          /\ (/\ memLog[i].config = memLog[j].config
              /\ memLog[i].config.enable_tenant_isolation
              /\ memLog[i].user_id = memLog[j].user_id
              /\ memLog[i].tenant_id # None /\ memLog[j].tenant_id # None
              /\ memLog[i].tenant_id # memLog[j].tenant_id)
                 => memLog[i].namespace # memLog[j].namespace
    /\ \A u \in UserIds, t1, t2 \in TenantArgs \ {None} :
          t1 # t2 => build_namespace(MemoryConfig(TRUE), u, t1)
                         # build_namespace(MemoryConfig(TRUE), u, t2)

\* two calls for one user under isolation, the second for another tenant
\* whose id contains a "/", got different namespaces
C18_Witness ==
    /\ Len(memLog) = 2
    /\ memLog[1].config.enable_tenant_isolation
    /\ memLog[2].config.enable_tenant_isolation
    /\ memLog[1].user_id = memLog[2].user_id
    /\ memLog[1].tenant_id = <<"a">>
    /\ memLog[2].tenant_id = <<"a", "/">>
    /\ memLog[1].namespace # memLog[2].namespace

\* C19: through TenantMemoryService no tenant reaches another tenant's
\* memory: what save_interaction stores for one tenant lies under a session
\* namespace and an episode namespace or tenant tag that no other tenant's
\* data lies under, and get_full_context for a tenant returns only turns and
\* episodes that were saved for that tenant.
SavedForTenant(item) == item.owner \in MemTenants
Cached(owner, key) == owner \in DOMAIN sessionCache /\ key \in DOMAIN sessionCache[owner]
CachedNext(owner, key) ==
    owner \in DOMAIN sessionCache' /\ key \in DOMAIN sessionCache'[owner]
Removers == {"clear_session", "invalidate_cache", "clear_tenant_cache", "remove_tenant"}
C20_CachedSessionServedFromCache ==
    [][\A o \in Owners, u \in MemUsers, s \in MemSessions :
          LET key == cache_key(u, s)
              called == /\ lastCall'.op \in {"get_session", "get_full_context"}
                        /\ lastCall'.raised = ""
                        /\ lastCall'.tenant_id = o
                        /\ lastCall'.user_id = u
                        /\ lastCall'.session_id = s
          IN  /\ (called /\ deps.config.enable_memory_cache /\ Cached(o, key))
                    => /\ lastCall'.session = sessionCache[o][key]
                       /\ ~lastCall'.queried
                       /\ sessionCache'[o] = sessionCache[o]
              /\ (called /\ deps.config.enable_memory_cache /\ lastCall'.loaded)
                    => /\ CachedNext(o, key)
                       /\ sessionCache'[o][key] = lastCall'.session
              /\ (Cached(o, key) /\ ~CachedNext(o, key))
                    => lastCall'.op \in Removers]_vars

\* a get_session was answered from the cache, without a query, with a
\* context that holds a turn loaded from the store
C20_Witness ==
    /\ lastCall.op = "get_session"
    /\ deps.config.enable_memory_cache
    /\ ~lastCall.queried
    /\ lastCall.session.messages # <<>>
    /\ Cached(lastCall.tenant_id, cache_key(lastCall.user_id, lastCall.session_id))

\* C21: whichever composer built it, a composed context lists its sections
\* in the order reflection guidance, episodic experience, session history,
\* knowledge-search results.
SectionRank(line) ==
    IF line = ReflectionHeader THEN 1
    ELSE IF line = EpisodeHeader THEN 2
    ELSE IF line = SessionHeader THEN 3
    ELSE IF line = RagHeader THEN 4
    ELSE 0
HeaderLines(text) == {i \in DOMAIN text : SectionRank(text[i]) # 0}
Separators(text) == {i \in DOMAIN text : text[i] = "---"}
C22_EmptySourcesContributeNothing ==
    composed.composer = "_build_enriched_context" =>
        LET c == composed
            present == (IF c.reflections # <<>> THEN 1 ELSE 0)
                       + (IF c.episodes # <<>> THEN 1 ELSE 0)
                       + (IF c.search_results # <<>> THEN 1 ELSE 0)
        IN  /\ (present = 0) <=> (c.output = None)
            /\ c.output # None =>
                  /\ (\E i \in DOMAIN c.output : c.output[i] = EpisodeHeader)
                        <=> c.episodes # <<>>
                  /\ (\E i \in DOMAIN c.output : c.output[i] = RagHeader)
                        <=> c.search_results # <<>>
                  /\ (\E i \in DOMAIN c.output : c.output[i] = ReflectionHeader)
                        <=> c.reflections # <<>>
                  /\ Cardinality(Separators(c.output)) = present - 1
                  /\ c.output[1] # "" /\ c.output[Len(c.output)] # ""
            /\ (c.reflections # <<>> /\ c.episodes = <<>> /\ c.search_results = <<>>)
                  => c.output = c.reflections

\* reflections alone were composed: the output is their section
C22_Witness ==
    /\ composed.composer = "_build_enriched_context"
    /\ composed.reflections # <<>>
    /\ composed.episodes = <<>>
    /\ composed.search_results = <<>>
    /\ composed.output = composed.reflections
    /\ composed.output[1] = ReflectionHeader

\* C23: in stream() the knowledge search, the episode retrieval and the
\* reflection retrieval are over before the first chunk is yielded;
\* save_interaction is called at most once, only when every chunk has been
\* yielded, with the concatenation of the yielded chunks; and a stream that
\* ran to its end has called it exactly once.
Started == stream.pc # "idle"
C24_RiskClassification ==
    risk.level # "none" =>
        LET n == Len(risk.failure_patterns)
            high == n > 0 /\ (sum(risk.failure_patterns) > HighConfidence * n \/ n >= 2)
        IN  /\ risk.success_count > n => risk.level = "low"
            /\ risk.success_count <= n =>
                  risk.level = IF high THEN "high" ELSE IF n > 0 THEN "medium" ELSE "low"

\* no handler is between its first and its last statement
NoRequestInProgress == \A r \in Requests : pc[r] \in {"idle", "done", "failed"}

\* C25: whenever no request is in progress, the version of every agent held
\* by a repository equals the latest version the event store holds for that
\* agent, also after requests that failed part-way through persistence.
C25_RepositoryMatchesEventStore ==
    NoRequestInProgress =>
        \A p \in Procs : \A a \in agentRepo[p] :
            agentObj[p][a].version = get_latest_version(store, "Agent", a)

\* the versions the event log holds for an agent
StoredVersions(a) == {store[k].version : k \in {x \in DOMAIN store : x[1] = "Agent" /\ x[2] = a}}

\* C26: under any interleaving of requests for one agent, the versions in
\* the agent's log are always 1..k without gaps (a request that lost a
\* version conflict having left none of its events).
C26_VersionsContiguous ==
    \A a \in AgentIds : StoredVersions(a) = 1..Cardinality(StoredVersions(a))

\* the event the log holds for agent a at version v, as a set (empty if none)
StoredAt(a, v) ==
    {store[k] : k \in {x \in DOMAIN store : x[1] = "Agent" /\ x[2] = a /\ store[x].version = v}}

\* C27: in an agent's log every ResponseGenerated at version v is
\* immediately preceded by an AgentInvoked at version v - 1 of the same
\* session, and no AgentInvoked is followed by another AgentInvoked.
C27_InvokedAndResponseAlternate ==
    \A a \in AgentIds : \A v \in StoredVersions(a) : \A e \in StoredAt(a, v) :
        /\ e.event_type = "ResponseGenerated" =>
              \E i \in StoredAt(a, v - 1) :
                  i.event_type = "AgentInvoked" /\ i.session_id = e.session_id
        /\ e.event_type = "AgentInvoked" =>
              \A n \in StoredAt(a, v + 1) : n.event_type # "AgentInvoked"

\* C28: an ended or expired session keeps the message_count and total_tokens
\* its SessionEnded event recorded: no interaction is recorded on a session
\* that is not active.
C28_EndedSessionFrozen ==
    \A sid \in DOMAIN sessObj :
        LET s == sessObj[sid]
        IN  s.status \in {"ended", "expired"} =>
                /\ EndedEvents(s) # {}
                /\ \A k \in EndedEvents(s) :
                       /\ s.log[k].message_count = s.message_count
                       /\ s.log[k].total_tokens = s.total_tokens

\* the cached contexts of the application's service whose messages the step changed
TouchedContexts ==
    {k \in DOMAIN sessionCache[None] \cap DOMAIN sessionCache'[None] :
        sessionCache'[None][k].messages # sessionCache[None][k].messages}

\* C29: distinct (user_id, session_id) pairs never share a cache entry:
\* get_session(s, u) returns a context of session s and user u, and save_turn
\* for one pair adds messages to no other pair's cached context.
C29_CacheEntriesNeverShared ==
    /\ [](lastCall.op = "get_session" =>
            /\ lastCall.session.session_id = lastCall.session_id
            /\ lastCall.session.user_id = lastCall.user_id)
    /\ [][(None \in DOMAIN sessionCache /\ lastCall'.op = "save_turn") =>
            \A k \in TouchedContexts :
                /\ sessionCache[None][k].session_id = lastCall'.session_id
                /\ sessionCache[None][k].user_id = lastCall'.user_id]_vars

====
